---- MODULE Spec2Model ----
(***************************************************************************)
(* Model of the micro-SaaS idea scout client (micro_saas_client.py):       *)
(* CacheManager, MicroSaasClient._call_id_generator, _fetch_ideas,         *)
(* _extract_ideas, get_ideas and deep_extract_ideas.                       *)
(*                                                                         *)
(* Strings are sequences of tokens (one token per character, plus the      *)
(* literal fragments the code concatenates).  A Python dict is the         *)
(* sequence of its <<key, value>> items in insertion order; a Python set   *)
(* is the duplicate-free sequence of its members.                          *)
(***************************************************************************)
EXTENDS Integers, Sequences, FiniteSets, TLC

\* ------------------------------------------------------------------ bounds
\* deep_extract_ideas is called with limit in 0..MaxLimit
MaxLimit == 2
\* get_ideas calls made in one session (GetSpec)
MaxCalls == 2
\* retries and genCalls stop counting failed-identifier iterations beyond
\* this many (the loop itself goes on)
MaxRetries == 2
\* entries in the dict literal handed to _extract_ideas (ExtractSpec)
MaxEntries == 4

\* ------------------------------------------------------- program constants
\* max_nbr_requests = 10
MAX_NBR_REQUESTS == 10

\* ------------------------------------------------------------ input sets
None == "<None>"
Ids == {"x1", "x2"}
Keywords == { <<"a">>, <<"A", " ", "b">>, <<"keyword_id_", "a">> }
Keys == {"k1", "k2", "k3", "k4"}
Values == {"t1", "d1", "t2"}

\* ---------------------------------------------------------------- strings
Range(s) == { s[i] : i \in 1..Len(s) }

\* str.lower(), token by token
Lower(s) == [i \in 1..Len(s) |-> IF s[i] = "A" THEN "a" ELSE IF s[i] = "B" THEN "b" ELSE s[i]]

\* str.replace(" ", "_")
ReplaceSpace(s) == [i \in 1..Len(s) |-> IF s[i] = " " THEN "_" ELSE s[i]]

\* c.isalnum() per character; the fragments "keyword_id_", "ideas_" and "json"
\* consist of alphanumerics and underscores, which the normalisation keeps
IsAlnumOrUnderscoreFragment(t) ==
    t \in {"a", "b", "A", "B", "0", "1", "2", "3", "4", "json", "keyword_id_", "ideas_", "_"}

\* ------------------------------------------------------------ CacheManager
\* CacheManager.cache_file: the path of the file for a name
cache_file(name) ==
    LET low == Lower(name)
        safe == [i \in 1..Len(low) |-> IF IsAlnumOrUnderscoreFragment(low[i]) THEN low[i] ELSE "_"]
    IN  safe \o <<".json">>

\* the keys a fetched record carries
RecordKeys(r) == r.fields

\* CacheManager.load_cached: [exc, val] for a cache directory c
load_cached(c, kw) ==
    LET path == cache_file(kw) IN
    IF path \in DOMAIN c
    THEN IF c[path].kind = "record"
         THEN [exc |-> "none",
               val |-> IF "id" \in RecordKeys(c[path].v) THEN c[path].v.id ELSE None]
         ELSE [exc |-> "AttributeError", val |-> None]
    ELSE [exc |-> "none", val |-> None]

\* CacheManager._createcache_file_names
_createcache_file_names(kw) ==
    LET std_keyword == ReplaceSpace(Lower(kw)) IN
    IF kw = << >>
    THEN [exc |-> "ValueError", kw_id |-> << >>, ideas |-> << >>]
    ELSE [exc |-> "none",
          kw_id |-> <<"keyword_id_">> \o std_keyword,
          ideas |-> <<"ideas_">> \o std_keyword]

\* a write_text that leaves an existing file alone
WriteTextKeepExisting(c, path, content) ==
    [p \in DOMAIN c \cup {path} |-> IF p \in DOMAIN c THEN c[p] ELSE content]

\* Path.write_text: create or replace one file
WriteText(c, path, content) ==
    [p \in DOMAIN c \cup {path} |-> IF p = path THEN content ELSE c[p]]

\* a save_cache that writes the file before it validates the data
save_cacheWriteFirst(c, kw, data) ==
    LET names == _createcache_file_names(kw)
        c2 == WriteText(c, cache_file(names.ideas), [kind |-> "record", v |-> data])
    IN  IF names.exc # "none" THEN [exc |-> names.exc, cache |-> c]
        ELSE IF data.type # "dict" \/ "id" \notin RecordKeys(data)
        THEN [exc |-> "ValueError", cache |-> c2]
        ELSE [exc |-> "none", cache |-> c2]

\* a save_cache with one file per keyword
save_cacheOneFile(c, kw, data) ==
    LET names == _createcache_file_names(kw) IN
    IF names.exc # "none" THEN [exc |-> names.exc, cache |-> c]
    ELSE IF data.type # "dict" \/ "id" \notin RecordKeys(data)
    THEN [exc |-> "ValueError", cache |-> c]
    ELSE [exc |-> "none",
          cache |-> WriteText(c, cache_file(names.kw_id), [kind |-> "record", v |-> data])]

\* CacheManager.save_cache: [exc, cache] after saving the record data
save_cache(c, kw, data) ==
    LET names == _createcache_file_names(kw) IN
    IF names.exc # "none" THEN [exc |-> names.exc, cache |-> c]
    ELSE IF data.type # "dict" THEN [exc |-> "ValueError", cache |-> c]
    ELSE IF "id" \notin RecordKeys(data) THEN [exc |-> "ValueError", cache |-> c]
    ELSE IF Cardinality(RecordKeys(data)) = 1
    THEN [exc |-> "none",
          cache |-> WriteText(c, cache_file(names.kw_id), [kind |-> "record", v |-> data])]
    ELSE [exc |-> "none",
          cache |-> WriteText(c, cache_file(names.ideas), [kind |-> "record", v |-> data])]

\* -------------------------------------------------------------- records
\* the value of a record's "ideas" field: a string holding a literal
\* (lit: "dict" with its entries, "list", "malformed", "syntax"), or a
\* non-string JSON value
NoIdeas == [type |-> "absent", lit |-> "", entries |-> << >>]
StrIdeas(lit, entries) == [type |-> "str", lit |-> lit, entries |-> entries]
NonStrIdeas == [type |-> "object", lit |-> "", entries |-> << >>]

MkRecord(fields, id, ideasval) ==
    [type |-> "dict", fields |-> fields, id |-> id, ideas |-> ideasval]

\* {} : what _fetch_ideas returns for an empty upstream array
EmptyRecord == MkRecord({}, None, NoIdeas)

\* {"id": idea_id}
IdOnly(id) == MkRecord({"id"}, id, NoIdeas)

\* the dict literals the upstream records of the session carry
E4 == << <<"k1", "t1">>, <<"k2", "d1">>, <<"k3", "t2">>, <<"k4", "d2">> >>
E3 == << <<"k1", "t1">>, <<"k2", "d1">>, <<"k3", "t1">> >>
E2 == << <<"k1", "t1">>, <<"k2", "d2">> >>

\* the records the upstream table may hold for an identifier
UpstreamRecords(id) ==
    { MkRecord({"id", "niche", "ideas"}, id, StrIdeas("dict", e)) : e \in {E4, E3, E2, << >>} }
    \cup { MkRecord({"id", "niche", "ideas"}, id, StrIdeas(l, << >>)) : l \in {"list", "malformed", "syntax"} }
    \cup { MkRecord({"id", "niche", "ideas"}, id, NonStrIdeas),
           MkRecord({"id", "niche"}, id, NoIdeas),
           MkRecord({"ideas"}, None, StrIdeas("dict", E2)),
           IdOnly(id) }

\* -------------------------------------------------------- Record Extractor
\* dict[k] = v on an insertion-ordered dict
DictPut(d, k, v) ==
    IF \E i \in 1..Len(d) : d[i][1] = k
    THEN [d EXCEPT ![CHOOSE i \in 1..Len(d) : d[i][1] = k] = <<k, v>>]
    ELSE Append(d, <<k, v>>)

\* the dict a sequence of items builds (dict(...), and a dict display)
RECURSIVE DictFromItems(_, _)
DictFromItems(items, d) ==
    IF items = << >> THEN d
    ELSE DictFromItems(Tail(items), DictPut(d, Head(items)[1], Head(items)[2]))

\* ast.literal_eval(str(data["ideas"])): [exc, isdict, val]
literal_eval(text) ==
    CASE text.lit = "dict" -> [exc |-> "none", isdict |-> TRUE, val |-> DictFromItems(text.entries, << >>)]
      [] text.lit = "list" -> [exc |-> "none", isdict |-> FALSE, val |-> << >>]
      [] text.lit = "syntax" -> [exc |-> "SyntaxError", isdict |-> FALSE, val |-> << >>]
      [] OTHER -> [exc |-> "ValueError", isdict |-> FALSE, val |-> << >>]

\* [value for _, value in ideas_dict.items()]
ListValues(d) == [i \in 1..Len(d) |-> d[i][2]]

\* the walk with range(1, len(list_values)): overlapping pairs
RECURSIVE ExtractLoopOverlapping(_, _, _)
ExtractLoopOverlapping(list_values, idx, results) ==
    IF idx >= Len(list_values) THEN results
    ELSE ExtractLoopOverlapping(list_values, idx + 1,
                     Append(results, << <<list_values[idx], list_values[idx + 1]>> >>))

\* for idx in range(1, len(list_values), 2): results.append({lv[idx-1]: lv[idx]})
\* idx is the Python (0-based) index
RECURSIVE ExtractLoop(_, _, _)
ExtractLoop(list_values, idx, results) ==
    IF idx >= Len(list_values) THEN results
    ELSE ExtractLoop(list_values, idx + 2,
                     Append(results, << <<list_values[idx], list_values[idx + 1]>> >>))

\* MicroSaasClient._extract_ideas: [exc, val]
_extract_ideas(data) ==
    IF data.type # "dict" THEN [exc |-> "ValueError", val |-> << >>]
    ELSE IF "ideas" \notin RecordKeys(data) THEN [exc |-> "KeyError", val |-> << >>]
    ELSE LET lit == IF data.ideas.type = "str"
                    THEN literal_eval(data.ideas)
                    ELSE [exc |-> "none", isdict |-> TRUE, val |-> << >>]
         IN  IF lit.exc # "none" THEN [exc |-> lit.exc, val |-> << >>]
             ELSE IF ~lit.isdict THEN [exc |-> "AttributeError", val |-> << >>]
             ELSE [exc |-> "none", val |-> ExtractLoop(ListValues(lit.val), 1, << >>)]

\* ------------------------------------------------------- Transport Gateway
\* what one POST to the generator can do
GenEvents == {"http_error", "transport_error", "ok_no_id"} \cup Ids

\* the try body of _call_id_generator (post, raise_for_status, json().get("id"))
GenBody(ev) ==
    CASE ev = "http_error" -> [exc |-> "HTTPError", val |-> None, caught |-> "none"]
      [] ev = "transport_error" -> [exc |-> "RequestException", val |-> None, caught |-> "none"]
      [] ev = "ok_no_id" -> [exc |-> "none", val |-> None, caught |-> "none"]
      [] OTHER -> [exc |-> "none", val |-> ev, caught |-> "none"]

\* a handler for transport errors alone
GenExceptTransportOnly(b) ==
    IF b.exc = "RequestException" THEN [exc |-> "none", val |-> None, caught |-> b.exc]
    ELSE b

\* the except clauses of _call_id_generator: both return None
GenExcept(b) ==
    IF b.exc = "HTTPError" THEN [exc |-> "none", val |-> None, caught |-> b.exc]
    ELSE IF b.exc = "RequestException" THEN [exc |-> "none", val |-> None, caught |-> b.exc]
    ELSE b

\* `if not idea_id`
Falsy(id) == id = None \/ id = ""

\* ------------------------------------------------------------------ state
VARIABLES
    pc,                \* the statement the client is at ("idle": between calls)
    calls,             \* client calls begun in this session
    keyword, limit,    \* arguments of the running call
    idea_id,           \* local idea_id
    ideas,             \* local ideas (the set) of deep_extract_ideas
    max_nbr_requests,  \* local max_nbr_requests
    ideas_dict,        \* local ideas_dict (the fetched record)
    ideas_list,        \* local ideas_list (the extracted units)
    final_result,      \* local final_result
    cache,             \* the files of the cache directory: path -> content
    ret,               \* how the last call ended
    gen_caller,        \* the statement _call_id_generator returns to
    gen_out,           \* what the running _call_id_generator is about to return
    gen_slept,         \* the running/last _call_id_generator has slept REQUEST_DELAY
    genCalls,          \* generator calls issued by the running call
    fetchCalls,        \* fetch calls issued by the running call
    retries,           \* failed-identifier iterations of the running call
    cycles,            \* completed cycles (decrements) of the running call
    consumed,          \* units of ideas_list handed to ideas.add
    dup_offered,       \* ideas.add was called with a member
    cache_at_call,     \* the cache directory when the running call began
    id_at_call,        \* the keyword's identifier-only entry when the call began
    id_fetched,        \* idea_id has been handed to _fetch_ideas
    original, new,     \* arguments of _merge_list_dictionaries
    merged,            \* local merged of _merge_list_dictionaries
    procs,             \* the locals of each of two concurrent get_ideas calls
    writes             \* the records the concurrent calls saved, in order

vars == <<pc, calls, keyword, limit, idea_id, ideas, max_nbr_requests, ideas_dict,
          ideas_list, final_result, cache, ret, gen_caller, gen_out, gen_slept,
          genCalls, fetchCalls, retries, cycles, consumed, dup_offered,
          cache_at_call, id_at_call, id_fetched, original, new, merged, procs, writes>>

\* the variables of _merge_list_dictionaries and of the concurrent calls
otherVars == <<original, new, merged, procs, writes>>

NoRet == [kind |-> "none", at |-> "", exc |-> "none"]
Raised(at, exc) == [kind |-> "raise", at |-> at, exc |-> exc]
Returned(kind) == [kind |-> kind, at |-> "", exc |-> "none"]

\* the empty cache directory
EmptyCache == [p \in {} |-> NoRet]

\* the identifier held by the keyword's identifier-only entry, if any
IdEntry(c, kw) ==
    LET names == _createcache_file_names(kw)
        path == cache_file(names.kw_id)
    IN  IF names.exc = "none" /\ path \in DOMAIN c THEN c[path].v.id ELSE None

\* _merge_list_dictionaries is not running, and no concurrent calls are
OtherIdle ==
    /\ original = << >>
    /\ new = << >>
    /\ merged = << >>
    /\ procs = << >>
    /\ writes = << >>

\* the state between calls, for a cache directory c
Idle(c) ==
    /\ id_fetched = FALSE
    /\ OtherIdle
    /\ pc = "idle"
    /\ calls = 0
    /\ keyword = << >>
    /\ limit = 0
    /\ cache = c
    /\ ret = NoRet
    /\ cache_at_call = c
    /\ id_at_call = None
    /\ idea_id = None
    /\ ideas = << >>
    /\ max_nbr_requests = 0
    /\ ideas_dict = EmptyRecord
    /\ ideas_list = << >>
    /\ final_result = << >>
    /\ gen_caller = ""
    /\ gen_out = [exc |-> "none", val |-> None, caught |-> "none"]
    /\ gen_slept = FALSE
    /\ genCalls = 0
    /\ fetchCalls = 0
    /\ retries = 0
    /\ cycles = 0
    /\ consumed = 0
    /\ dup_offered = FALSE

\* a call begins: fresh locals
Begin(kw, lim, first, maxcalls) ==
    /\ pc = "idle"
    /\ calls < maxcalls
    /\ calls' = calls + 1
    /\ keyword' = kw
    /\ limit' = lim
    /\ ret' = NoRet
    /\ cache_at_call' = cache
    /\ id_at_call' = IdEntry(cache, kw)
    /\ pc' = first
    /\ idea_id' = None
    /\ ideas' = << >>
    /\ max_nbr_requests' = 0
    /\ ideas_dict' = EmptyRecord
    /\ ideas_list' = << >>
    /\ final_result' = << >>
    /\ gen_caller' = ""
    /\ gen_out' = [exc |-> "none", val |-> None, caught |-> "none"]
    /\ gen_slept' = FALSE
    /\ genCalls' = 0
    /\ fetchCalls' = 0
    /\ retries' = 0
    /\ cycles' = 0
    /\ consumed' = 0
    /\ dup_offered' = FALSE
    /\ id_fetched' = FALSE
    /\ UNCHANGED <<cache, otherVars>>

\* the call ends with an exception
Raise(at, exc) ==
    /\ pc' = "idle"
    /\ ret' = Raised(at, exc)

\* --------------------------------------------------- _call_id_generator
\* lines 140-156: the request and the except clauses
GenPost ==
    /\ pc = "gen_try"
    /\ \E ev \in GenEvents :
          gen_out' = GenExcept(GenBody(ev))
    /\ gen_slept' = FALSE
    /\ pc' = "gen_finally"
    /\ UNCHANGED <<calls, keyword, limit, idea_id, ideas, max_nbr_requests, ideas_dict,
                   ideas_list, final_result, cache, ret, gen_caller, genCalls, fetchCalls,
                   retries, cycles, consumed, dup_offered, cache_at_call, id_at_call, id_fetched, otherVars>>

\* lines 157-158: finally: time.sleep(REQUEST_DELAY), then the return (or the raise)
GenFinally ==
    /\ pc = "gen_finally"
    /\ gen_slept' = TRUE
    /\ IF gen_out.exc = "none"
       THEN /\ idea_id' = gen_out.val
            /\ id_fetched' = FALSE
            /\ pc' = gen_caller
            /\ UNCHANGED ret
       ELSE /\ Raise("gen", gen_out.exc)
            /\ UNCHANGED <<idea_id, id_fetched>>
    /\ UNCHANGED <<calls, keyword, limit, ideas, max_nbr_requests, ideas_dict,
                   ideas_list, final_result, cache, gen_caller, gen_out, genCalls,
                   fetchCalls, retries, cycles, consumed, dup_offered, cache_at_call,
                   id_at_call, otherVars>>

\* ------------------------------------------------------------ _fetch_ideas
\* lines 161-166, called at statement `at`, continuing at `next`
Fetch(at, next) ==
    /\ pc = at
    /\ fetchCalls' = fetchCalls + 1
    /\ id_fetched' = TRUE
    /\ \/ \E exc \in {"HTTPError", "RequestException"} :
             /\ Raise("fetch", exc)
             /\ UNCHANGED ideas_dict
       \/ /\ ideas_dict' = EmptyRecord
          /\ pc' = next
          /\ UNCHANGED ret
       \/ \E r \in UpstreamRecords(idea_id) :
             /\ ideas_dict' = r
             /\ pc' = next
             /\ UNCHANGED ret
    /\ UNCHANGED <<calls, keyword, limit, idea_id, ideas, max_nbr_requests,
                   ideas_list, final_result, cache, gen_caller, gen_out, gen_slept,
                   genCalls, retries, cycles, consumed, dup_offered, cache_at_call,
                   id_at_call, otherVars>>

\* --------------------------------------------------------------- get_ideas
CallGetIdeas ==
    \E kw \in Keywords : Begin(kw, 0, "g193", MaxCalls)

\* lines 193-196
GetLoad ==
    /\ pc = "g193"
    /\ LET r == load_cached(cache, keyword) IN
          IF r.exc # "none"
          THEN /\ Raise("load", r.exc)
               /\ UNCHANGED <<idea_id, gen_caller, genCalls>>
          ELSE IF Falsy(r.val)
          THEN /\ pc' = "gen_try"
               /\ gen_caller' = "g197"
               /\ genCalls' = genCalls + 1
               /\ idea_id' = r.val
               /\ UNCHANGED ret
          ELSE /\ pc' = "g201"
               /\ idea_id' = r.val
               /\ UNCHANGED <<ret, gen_caller, genCalls>>
    /\ UNCHANGED <<calls, keyword, limit, ideas, max_nbr_requests, ideas_dict,
                   ideas_list, final_result, cache, gen_out, gen_slept,
                   fetchCalls, retries, cycles, consumed, dup_offered, cache_at_call,
                   id_at_call, id_fetched, otherVars>>

\* a get_ideas that asks the generator again when it got no identifier
GetSaveIdRetry ==
    /\ pc = "g197"
    /\ IF Falsy(idea_id)
       THEN IF genCalls < 2
            THEN /\ pc' = "gen_try"
                 /\ genCalls' = genCalls + 1
                 /\ UNCHANGED <<cache, ret>>
            ELSE /\ pc' = "idle"
                 /\ ret' = Returned("None")
                 /\ UNCHANGED <<cache, genCalls>>
       ELSE LET s == save_cache(cache, keyword, IdOnly(idea_id)) IN
            IF s.exc # "none"
            THEN /\ Raise("save", s.exc)
                 /\ UNCHANGED <<cache, genCalls>>
            ELSE /\ cache' = s.cache
                 /\ pc' = "g201"
                 /\ UNCHANGED <<ret, genCalls>>
    /\ UNCHANGED <<calls, keyword, limit, idea_id, ideas, max_nbr_requests, ideas_dict,
                   ideas_list, final_result, gen_caller, gen_out, gen_slept,
                   fetchCalls, retries, cycles, consumed, dup_offered, cache_at_call,
                   id_at_call, id_fetched, otherVars>>

\* lines 197-199
GetSaveId ==
    /\ pc = "g197"
    /\ IF Falsy(idea_id)
       THEN /\ pc' = "idle"
            /\ ret' = Returned("None")
            /\ UNCHANGED cache
       ELSE LET s == save_cache(cache, keyword, IdOnly(idea_id)) IN
            IF s.exc # "none"
            THEN /\ Raise("save", s.exc)
                 /\ UNCHANGED cache
            ELSE /\ cache' = s.cache
                 /\ pc' = "g201"
                 /\ UNCHANGED ret
    /\ UNCHANGED <<calls, keyword, limit, idea_id, ideas, max_nbr_requests, ideas_dict,
                   ideas_list, final_result, gen_caller, gen_out, gen_slept, genCalls,
                   fetchCalls, retries, cycles, consumed, dup_offered, cache_at_call,
                   id_at_call, id_fetched, otherVars>>

\* line 201
GetFetch == Fetch("g201", "g202")

\* lines 202-203
GetSaveRecord ==
    /\ pc = "g202"
    /\ LET s == save_cache(cache, keyword, ideas_dict) IN
          IF s.exc # "none"
          THEN /\ Raise("save", s.exc)
               /\ UNCHANGED cache
          ELSE /\ cache' = s.cache
               /\ pc' = "idle"
               /\ ret' = Returned("dict")
    /\ UNCHANGED <<calls, keyword, limit, idea_id, ideas, max_nbr_requests, ideas_dict,
                   ideas_list, final_result, gen_caller, gen_out, gen_slept, genCalls,
                   fetchCalls, retries, cycles, consumed, dup_offered, cache_at_call,
                   id_at_call, id_fetched, otherVars>>

\* ------------------------------------------------------ deep_extract_ideas
\* a collection keyed by the title alone
SetAddByTitle(s, e) ==
    IF \E i \in 1..Len(s) : s[i][1][1] = e[1][1] THEN s ELSE Append(s, e)

\* set.add on a set kept as the duplicate-free sequence of its members
SetAdd(s, e) == IF e \in Range(s) THEN s ELSE Append(s, e)

\* tuple(idea.items())
ItemsTuple(idea) == [i \in 1..Len(idea) |-> <<idea[i][1], idea[i][2]>>]

\* the for loop without its `break`
RECURSIVE InsertLoopNoBreak(_, _, _, _, _, _)
InsertLoopNoBreak(set, list, i, lim, n, dup) ==
    IF i > Len(list) THEN [ideas |-> set, consumed |-> n, dup |-> dup]
    ELSE InsertLoopNoBreak(SetAdd(set, ItemsTuple(list[i])), list, i + 1, lim, n + 1,
                           dup \/ ItemsTuple(list[i]) \in Range(set))

\* lines 225-228: the for loop over ideas_list from (1-based) position i on:
\* [ideas, consumed, dup]
RECURSIVE InsertLoop(_, _, _, _, _, _)
InsertLoop(set, list, i, lim, n, dup) ==
    IF i > Len(list) THEN [ideas |-> set, consumed |-> n, dup |-> dup]
    ELSE IF Len(set) >= lim THEN [ideas |-> set, consumed |-> n, dup |-> dup]
    ELSE InsertLoop(SetAdd(set, ItemsTuple(list[i])), list, i + 1, lim, n + 1,
                    dup \/ ItemsTuple(list[i]) \in Range(set))

\* the orders in which a set of n members may be iterated
IterationOrders(n) == { f \in [1..n -> 1..n] : \A i, j \in 1..n : f[i] = f[j] => i = j }

\* f"ideas_{keyword.lower().replace(' ', '_')}_{limit}.json"
results_file_name(kw, lim) ==
    <<"ideas_">> \o ReplaceSpace(Lower(kw)) \o <<"_", ToString(lim), ".", "json">>

\* one call per session
CallDeepExtract ==
    \E kw \in Keywords, lim \in 0..MaxLimit : Begin(kw, lim, "a211", 1)

\* lines 211-213
AcqInit ==
    /\ pc = "a211"
    /\ ideas' = << >>
    /\ max_nbr_requests' = MAX_NBR_REQUESTS
    /\ pc' = "gen_try"
    /\ gen_caller' = "a214"
    /\ genCalls' = genCalls + 1
    /\ UNCHANGED <<calls, keyword, limit, idea_id, ideas_dict, ideas_list, final_result,
                   cache, ret, gen_out, gen_slept, fetchCalls, retries,
                   cycles, consumed, dup_offered, cache_at_call, id_at_call, id_fetched, otherVars>>

\* the loop test with `max_nbr_requests >= 0`
LoopTestInclusive ==
    /\ pc = "a214"
    /\ IF Len(ideas) < limit /\ max_nbr_requests >= 0
       THEN IF Falsy(idea_id) THEN pc' = "a216" ELSE pc' = "a221"
       ELSE pc' = "a234"
    /\ UNCHANGED <<calls, keyword, limit, idea_id, ideas, max_nbr_requests, ideas_dict,
                   ideas_list, final_result, cache, ret, gen_caller, gen_out, gen_slept,
                   genCalls, fetchCalls, retries, cycles, consumed, dup_offered,
                   cache_at_call, id_at_call, id_fetched, otherVars>>

\* line 214, the loop test, and line 215
LoopTest ==
    /\ pc = "a214"
    /\ IF Len(ideas) < limit /\ max_nbr_requests > 0
       THEN IF Falsy(idea_id) THEN pc' = "a216" ELSE pc' = "a221"
       ELSE pc' = "a234"
    /\ UNCHANGED <<calls, keyword, limit, idea_id, ideas, max_nbr_requests, ideas_dict,
                   ideas_list, final_result, cache, ret, gen_caller, gen_out, gen_slept,
                   genCalls, fetchCalls, retries, cycles, consumed, dup_offered,
                   cache_at_call, id_at_call, id_fetched, otherVars>>

\* a retry that costs one request of the budget
RetryCountsBudget ==
    /\ pc = "a216"
    /\ IF retries < MaxRetries
       THEN retries' = retries + 1 /\ genCalls' = genCalls + 1
       ELSE UNCHANGED <<retries, genCalls>>
    /\ max_nbr_requests' = max_nbr_requests - 1
    /\ pc' = "gen_try"
    /\ gen_caller' = "a214"
    /\ UNCHANGED <<calls, keyword, limit, idea_id, ideas, ideas_dict,
                   ideas_list, final_result, cache, ret, gen_out, gen_slept,
                   fetchCalls, cycles, consumed, dup_offered, cache_at_call, id_at_call,
                   id_fetched, otherVars>>

\* lines 216-220: ask for an identifier again and `continue`
Retry ==
    /\ pc = "a216"
    /\ IF retries < MaxRetries
       THEN retries' = retries + 1 /\ genCalls' = genCalls + 1
       ELSE UNCHANGED <<retries, genCalls>>
    /\ pc' = "gen_try"
    /\ gen_caller' = "a214"
    /\ UNCHANGED <<calls, keyword, limit, idea_id, ideas, max_nbr_requests, ideas_dict,
                   ideas_list, final_result, cache, ret, gen_out, gen_slept,
                   fetchCalls, cycles, consumed, dup_offered, cache_at_call, id_at_call, id_fetched, otherVars>>

\* line 221
AcqFetch == Fetch("a221", "a224")

\* line 224 inside a try/except that carries on with no units
AcqExtractSwallow ==
    /\ pc = "a224"
    /\ LET x == _extract_ideas(ideas_dict) IN
          /\ ideas_list' = x.val
          /\ pc' = "a225"
          /\ UNCHANGED ret
    /\ UNCHANGED <<calls, keyword, limit, idea_id, ideas, max_nbr_requests, ideas_dict,
                   final_result, cache, gen_caller, gen_out, gen_slept, genCalls,
                   fetchCalls, retries, cycles, consumed, dup_offered, cache_at_call,
                   id_at_call, id_fetched, otherVars>>

\* line 224
AcqExtract ==
    /\ pc = "a224"
    /\ LET x == _extract_ideas(ideas_dict) IN
          IF x.exc # "none"
          THEN /\ Raise("extract", x.exc)
               /\ UNCHANGED ideas_list
          ELSE /\ ideas_list' = x.val
               /\ pc' = "a225"
               /\ UNCHANGED ret
    /\ UNCHANGED <<calls, keyword, limit, idea_id, ideas, max_nbr_requests, ideas_dict,
                   final_result, cache, gen_caller, gen_out, gen_slept, genCalls,
                   fetchCalls, retries, cycles, consumed, dup_offered, cache_at_call,
                   id_at_call, id_fetched, otherVars>>

\* lines 225-228
AcqInsert ==
    /\ pc = "a225"
    /\ LET r == InsertLoop(ideas, ideas_list, 1, limit, 0, FALSE) IN
          /\ ideas' = r.ideas
          /\ consumed' = r.consumed
          /\ dup_offered' = (dup_offered \/ r.dup)
    /\ pc' = "a229"
    /\ UNCHANGED <<calls, keyword, limit, idea_id, max_nbr_requests, ideas_dict,
                   ideas_list, final_result, cache, ret, gen_caller, gen_out, gen_slept,
                   genCalls, fetchCalls, retries, cycles, cache_at_call, id_at_call, id_fetched, otherVars>>

\* a loop that asks for the next identifier only while units are missing
AcqNextIdUnlessDone ==
    /\ pc = "a229"
    /\ IF Len(ideas) < limit
       THEN /\ pc' = "gen_try"
            /\ gen_caller' = "a231"
            /\ genCalls' = genCalls + 1
       ELSE /\ pc' = "a231"
            /\ UNCHANGED <<gen_caller, genCalls>>
    /\ ideas_dict' = EmptyRecord
    /\ ideas_list' = << >>
    /\ consumed' = 0
    /\ UNCHANGED <<calls, keyword, limit, idea_id, ideas, max_nbr_requests,
                   final_result, cache, ret, gen_out, gen_slept,
                   fetchCalls, retries, cycles, dup_offered, cache_at_call,
                   id_at_call, id_fetched, otherVars>>

\* a loop that keeps the identifier it has
AcqNextIdReuse ==
    /\ pc = "a229"
    /\ pc' = "a231"
    /\ ideas_dict' = EmptyRecord
    /\ ideas_list' = << >>
    /\ consumed' = 0
    /\ UNCHANGED <<calls, keyword, limit, idea_id, ideas, max_nbr_requests,
                   final_result, cache, ret, gen_caller, gen_out, gen_slept, genCalls,
                   fetchCalls, retries, cycles, dup_offered, cache_at_call,
                   id_at_call, id_fetched, otherVars>>

\* line 229.  ideas_dict and ideas_list are not read again before lines 221 and
\* 224 assign them anew: the model forgets them (and the count of consumed
\* units) here
AcqNextId ==
    /\ pc = "a229"
    /\ pc' = "gen_try"
    /\ gen_caller' = "a231"
    /\ genCalls' = genCalls + 1
    /\ ideas_dict' = EmptyRecord
    /\ ideas_list' = << >>
    /\ consumed' = 0
    /\ UNCHANGED <<calls, keyword, limit, idea_id, ideas, max_nbr_requests,
                   final_result, cache, ret, gen_out, gen_slept,
                   fetchCalls, retries, cycles, dup_offered, cache_at_call,
                   id_at_call, id_fetched, otherVars>>

\* lines 230-231: time.sleep(1.5)
AcqSleep ==
    /\ pc = "a231"
    /\ pc' = "a232"
    /\ UNCHANGED <<calls, keyword, limit, idea_id, ideas, max_nbr_requests, ideas_dict,
                   ideas_list, final_result, cache, ret, gen_caller, gen_out, gen_slept,
                   genCalls, fetchCalls, retries, cycles, consumed, dup_offered,
                   cache_at_call, id_at_call, id_fetched, otherVars>>

\* line 232
AcqDecrement ==
    /\ pc = "a232"
    /\ max_nbr_requests' = max_nbr_requests - 1
    /\ cycles' = cycles + 1
    /\ pc' = "a214"
    /\ UNCHANGED <<calls, keyword, limit, idea_id, ideas, ideas_dict, ideas_list,
                   final_result, cache, ret, gen_caller, gen_out, gen_slept, genCalls,
                   fetchCalls, retries, consumed, dup_offered, cache_at_call, id_at_call, id_fetched, otherVars>>

\* lines 234-239
AcqFinish ==
    /\ pc = "a234"
    /\ \E f \in IterationOrders(Len(ideas)) :
          final_result' = [i \in 1..Len(ideas) |-> DictFromItems(ideas[f[i]], << >>)]
    /\ cache' = WriteText(cache, cache_file(results_file_name(keyword, limit)),
                          [kind |-> "list", v |-> final_result'])
    /\ pc' = "idle"
    /\ ret' = Returned("list")
    /\ UNCHANGED <<calls, keyword, limit, idea_id, ideas, max_nbr_requests, ideas_dict,
                   ideas_list, gen_caller, gen_out, gen_slept, genCalls, fetchCalls,
                   retries, cycles, consumed, dup_offered, cache_at_call, id_at_call, id_fetched, otherVars>>

\* ------------------------------------------------------- _extract_ideas alone
\* the dict literals of at most n entries
Entries(n) == UNION { [1..m -> Keys \X Values] : m \in 0..n }

\* the records _extract_ideas is applied to
ExtractInputs ==
    { MkRecord({"id", "ideas"}, "x1", StrIdeas("dict", e)) : e \in Entries(MaxEntries) }
    \cup { MkRecord({"id", "ideas"}, "x1", StrIdeas(l, << >>)) : l \in {"list", "malformed", "syntax"} }
    \cup { MkRecord({"id", "ideas"}, "x1", NonStrIdeas),
           MkRecord({"id"}, "x1", NoIdeas),
           EmptyRecord,
           [type |-> "list", fields |-> {}, id |-> None, ideas |-> NoIdeas] }

ExtractApply ==
    /\ pc = "x168"
    /\ LET x == _extract_ideas(ideas_dict) IN
          /\ ideas_list' = x.val
          /\ ret' = IF x.exc = "none" THEN Returned("list") ELSE Raised("extract", x.exc)
    /\ pc' = "x186"
    /\ UNCHANGED <<calls, keyword, limit, idea_id, ideas, max_nbr_requests, ideas_dict,
                   final_result, cache, gen_caller, gen_out, gen_slept, genCalls,
                   fetchCalls, retries, cycles, consumed, dup_offered, cache_at_call,
                   id_at_call, id_fetched, otherVars>>

\* ---------------------------------------------------------- specifications
\* what an earlier get_ideas("a") and deep_extract_ideas("a", 1) leave behind
PriorCache ==
    WriteText(save_cache(EmptyCache, <<"a">>, IdOnly("x1")).cache,
              cache_file(results_file_name(<<"a">>, 1)),
              [kind |-> "list", v |-> << << <<"t2", "d2">> >> >>])

\* one deep_extract_ideas call
Init == \E c \in {EmptyCache, PriorCache} : Idle(c)

Next ==
    \/ CallDeepExtract
    \/ AcqInit
    \/ LoopTest
    \/ Retry
    \/ AcqFetch
    \/ AcqExtract
    \/ AcqInsert
    \/ AcqNextId
    \/ AcqSleep
    \/ AcqDecrement
    \/ AcqFinish
    \/ GenPost
    \/ GenFinally

Spec == Init /\ [][Next]_vars

\* the interpreter always executes the next statement of a running call
FairSpec == Spec /\ WF_vars(Next)

\* a session of get_ideas calls
GetInit == Idle(EmptyCache)

GetNext ==
    \/ CallGetIdeas
    \/ GetLoad
    \/ GetSaveId
    \/ GetFetch
    \/ GetSaveRecord
    \/ GenPost
    \/ GenFinally

GetSpec == GetInit /\ [][GetNext]_vars

\* _extract_ideas applied to one record
ExtractInit ==
    \E r \in ExtractInputs :
        /\ pc = "x168"
        /\ calls = 0
        /\ keyword = << >>
        /\ limit = 0
        /\ cache = EmptyCache
        /\ ret = NoRet
        /\ cache_at_call = EmptyCache
        /\ id_at_call = None
        /\ idea_id = None
        /\ ideas = << >>
        /\ max_nbr_requests = 0
        /\ ideas_dict = r
        /\ ideas_list = << >>
        /\ final_result = << >>
        /\ gen_caller = ""
        /\ gen_out = [exc |-> "none", val |-> None, caught |-> "none"]
        /\ gen_slept = FALSE
        /\ genCalls = 0
        /\ fetchCalls = 0
        /\ retries = 0
        /\ cycles = 0
        /\ consumed = 0
        /\ dup_offered = FALSE
        /\ id_fetched = FALSE
        /\ OtherIdle

ExtractNext == ExtractApply

ExtractSpec == ExtractInit /\ [][ExtractNext]_vars
\* ------------------------------------------------------------------ claims
\* an IdeaUnit {title: description}, as a dict and as the set member
Unit(title, description) == << <<title, description>> >>

NoDuplicates(s) == \A i, j \in 1..Len(s) : s[i] = s[j] => i = j

\* the deep_extract_ideas call has passed line 213's initialisation
Started == calls = 1 /\ pc # "a211"

\* C1: with a generator whose every call fails, the acquisition loop
\* terminates: in every behaviour either some generator call yields an
\* identifier or the call ends.
C1_BudgetTermination ==
    <>(ret.kind # "none" \/ (pc = "gen_finally" /\ ~Falsy(gen_out.val)))

\* C2: the IdeaSet never holds two units with the same (title, description),
\* never exceeds target_count, the returned list does neither, and every unit
\* handed to the set is a member afterwards (units that share a title and
\* differ in description are both kept).
C2_DedupCorrectness ==
    /\ NoDuplicates(ideas)
    /\ Len(ideas) <= limit
    /\ ret.kind = "list" => NoDuplicates(final_result) /\ Len(final_result) <= limit
    /\ pc = "a229" => \A i \in 1..consumed : ItemsTuple(ideas_list[i]) \in Range(ideas)

C2_Witness ==
    /\ ret.kind = "list"
    /\ dup_offered
    /\ Unit("t1", "d1") \in Range(final_result)
    /\ Unit("t1", "d2") \in Range(final_result)

\* C3: once get_ideas has generated an identifier and saved the
\* identifier-only entry, load_cached(keyword) returns it, and a get_ideas
\* call that starts with that entry present issues no generator call.
C3_IdempotentCacheHit ==
    /\ (pc = "g201" /\ genCalls = 1) => load_cached(cache, keyword).val = idea_id
    /\ id_at_call # None => genCalls = 0

\* C4: deep_extract_ideas for a keyword that has an identifier-only cache
\* entry issues no generator call before its first fetch call.
C4_CacheBeforeNetwork ==
    (pc # "idle" /\ id_at_call # None /\ fetchCalls = 0) => genCalls = 0

\* C5: a failed fetch or a failed extraction (KeyError on the empty record
\* included) ends deep_extract_ideas in that cycle: nothing is returned, the
\* cache directory is as it was when the call began, the failing fetch is the
\* last call issued (no generator call follows it), and the loop never goes
\* on with a record that does not extract.
C5_FailureAborts ==
    /\ ret.kind = "raise" =>
          /\ pc = "idle"
          /\ ret.at \in {"fetch", "extract"}
          /\ final_result = << >>
          /\ cache = cache_at_call
          /\ fetchCalls = cycles + 1
          /\ genCalls = 1 + cycles + retries
    /\ ret.kind = "list" => fetchCalls = cycles
    /\ pc \in {"a225", "a229"} =>
          /\ "ideas" \in RecordKeys(ideas_dict)
          /\ ideas_dict.ideas.type = "str" => ideas_dict.ideas.lit = "dict"

C5_Witness ==
    /\ ret = Raised("extract", "KeyError")
    /\ ideas_dict = EmptyRecord
    /\ Len(ideas) = 1
    /\ cycles = 1
    /\ cache = cache_at_call

\* C6: fetch calls never exceed max_nbr_requests = 10, completed cycles plus
\* the remaining budget is always 10, and when the budget is 0 the loop is
\* over and the call returns what it accumulated.
C6_RequestBudget ==
    /\ fetchCalls <= MAX_NBR_REQUESTS
    /\ Started => cycles + max_nbr_requests = MAX_NBR_REQUESTS
    /\ (Started /\ max_nbr_requests = 0) =>
          /\ pc \in {"a214", "a234", "idle"}
          /\ pc = "idle" =>
                /\ ret.kind = "list"
                /\ Len(final_result) = Len(ideas)
                /\ Range(final_result) = Range(ideas)

C6_Witness ==
    /\ ret.kind = "list"
    /\ max_nbr_requests = 0
    /\ fetchCalls = MAX_NBR_REQUESTS
    /\ Len(final_result) = 1
    /\ limit = 2

\* the members after the first k units of ideas_list are handed to the set
PrefixSet(k) == Range(ideas) \cup { ItemsTuple(ideas_list[i]) : i \in 1..k }

\* the number of units the loop of lines 225-228 is to consume
StopPoint ==
    IF \E k \in 0..Len(ideas_list) : Cardinality(PrefixSet(k)) >= limit
    THEN CHOOSE k \in 0..Len(ideas_list) :
            /\ Cardinality(PrefixSet(k)) >= limit
            /\ \A j \in 0..(k - 1) : Cardinality(PrefixSet(j)) < limit
    ELSE Len(ideas_list)

\* C7: insertion consumes the cycle's units only until the set reaches
\* target_count, and once it has, no further fetch call is issued; with
\* limit = 1 and a first record flattening to [t1, d1, t2, d2] the set is
\* {(t1, d1)} after one fetch and the call returns [{t1: d1}].
C7_StopOnTarget ==
    /\ [][pc = "a225" => /\ consumed' = StopPoint
                         /\ Range(ideas') = PrefixSet(StopPoint)]_vars
    /\ [][(pc # "idle" /\ Len(ideas) >= limit) => fetchCalls' = fetchCalls]_vars
    /\ []((pc = "a229" /\ limit = 1 /\ fetchCalls = 1
              /\ ideas_dict.ideas = StrIdeas("dict", E4))
            => (ideas = << Unit("t1", "d1") >> /\ consumed = 1))
    /\ []((ret.kind = "list" /\ ideas = << Unit("t1", "d1") >>)
            => final_result = << Unit("t1", "d1") >>)

C7_Witness ==
    /\ pc = "a229"
    /\ limit = 1
    /\ fetchCalls = 1
    /\ ideas_dict.ideas = StrIdeas("dict", E4)
    /\ Len(ideas_list) = 2
    /\ consumed = 1

\* the flattened value list of the decoded literal of the record at hand
DecodedValues == [i \in 1..Len(literal_eval(ideas_dict.ideas).val) |->
                     literal_eval(ideas_dict.ideas).val[i][2]]

IsDictLiteral ==
    /\ ideas_dict.type = "dict"
    /\ "ideas" \in RecordKeys(ideas_dict)
    /\ ideas_dict.ideas.type = "str"
    /\ ideas_dict.ideas.lit = "dict"

\* C8: for a decoded value list v of length n, _extract_ideas returns
\* floor(n/2) units, the k-th being {v[2k]: v[2k+1]} (0-based), and drops an
\* unpaired last element without an error.
C8_ExtractionPairing ==
    (pc = "x186" /\ IsDictLiteral) =>
        /\ ret.kind = "list"
        /\ Len(ideas_list) = Len(DecodedValues) \div 2
        /\ \A k \in 1..Len(ideas_list) :
              ideas_list[k] = Unit(DecodedValues[2 * k - 1], DecodedValues[2 * k])

C8_Witness ==
    /\ pc = "x186"
    /\ IsDictLiteral
    /\ DecodedValues = <<"t1", "d1", "t2">>
    /\ ideas_list = << Unit("t1", "d1") >>
    /\ ret.kind = "list"

\* C9: a record whose ideas string is not a parseable literal extracts to
\* the empty list, without an error.
C9_DecodingFailsClosed ==
    (/\ pc = "x186"
     /\ ideas_dict.type = "dict"
     /\ "ideas" \in RecordKeys(ideas_dict)
     /\ ideas_dict.ideas.type = "str"
     /\ ideas_dict.ideas.lit \in {"malformed", "syntax"})
    => (ret.kind = "list" /\ ideas_list = << >>)

MaxMergeLen == 2

MergeKeys == {"title", "score"}
OriginalValues == {"X"}
NewValues == {"Y", "10"}

\* the dicts over MergeKeys with values in vals, as items in insertion order
MergeDicts(vals) ==
    { d \in UNION { [1..m -> MergeKeys \X vals] : m \in 0..Cardinality(MergeKeys) } :
        \A i, j \in 1..Len(d) : d[i][1] = d[j][1] => i = j }

\* the lists of at most n of the dicts D
MergeLists(D, n) == UNION { [1..m -> D] : m \in 0..n }

\* `key in merged[idx]`
HasKey(d, key) == \E i \in 1..Len(d) : d[i][1] = key

\* lines 91-95 with the documented policy: the new value replaces the old
RECURSIVE MergeDictOverwrite(_, _, _)
MergeDictOverwrite(d, items, j) ==
    IF j > Len(items) THEN d
    ELSE MergeDictOverwrite(DictPut(d, items[j][1], items[j][2]), items, j + 1)

\* lines 91-95: the inner loop over new_dict.items(), on the dict merged[idx]
RECURSIVE MergeDict(_, _, _)
MergeDict(d, items, j) ==
    IF j > Len(items) THEN d
    ELSE IF HasKey(d, items[j][1])
    THEN MergeDict(d, items, j + 1)
    ELSE MergeDict(Append(d, items[j]), items, j + 1)

\* lines 90-95: the outer loop; merged[idx] raises IndexError when new_dict
\* has an item and merged has no element idx
RECURSIVE MergeLoop(_, _, _)
MergeLoop(m, n, idx) ==
    IF idx > Len(n) THEN [exc |-> "none", val |-> m]
    ELSE IF idx > Len(m)
    THEN IF Len(n[idx]) > 0
         THEN [exc |-> "IndexError", val |-> m]
         ELSE MergeLoop(m, n, idx + 1)
    ELSE MergeLoop([m EXCEPT ![idx] = MergeDict(m[idx], n[idx], 1)], n, idx + 1)

\* AIEvaluator._merge_list_dictionaries: [exc, val]; merged = original.copy()
\* is a shallow copy
_merge_list_dictionaries(o, n) == MergeLoop(o, n, 1)

\* _merge_list_dictionaries about to run on two lists
MergeInit ==
    \E o \in MergeLists(MergeDicts(OriginalValues), MaxMergeLen),
       n \in MergeLists(MergeDicts(NewValues), MaxMergeLen) :
        /\ pc = "m84"
        /\ original = o
        /\ new = n
        /\ merged = << >>
        /\ procs = << >>
        /\ writes = << >>
        /\ calls = 0
        /\ keyword = << >>
        /\ limit = 0
        /\ cache = EmptyCache
        /\ ret = NoRet
        /\ cache_at_call = EmptyCache
        /\ id_at_call = None
        /\ idea_id = None
        /\ ideas = << >>
        /\ max_nbr_requests = 0
        /\ ideas_dict = EmptyRecord
        /\ ideas_list = << >>
        /\ final_result = << >>
        /\ gen_caller = ""
        /\ gen_out = [exc |-> "none", val |-> None, caught |-> "none"]
        /\ gen_slept = FALSE
        /\ genCalls = 0
        /\ fetchCalls = 0
        /\ retries = 0
        /\ cycles = 0
        /\ consumed = 0
        /\ dup_offered = FALSE
        /\ id_fetched = FALSE

\* lines 84-96; the dicts of merged are the dicts of original, so the
\* caller's list shows the merge too
MergeApply ==
    /\ pc = "m84"
    /\ LET r == _merge_list_dictionaries(original, new) IN
          /\ merged' = r.val
          /\ original' = r.val
          /\ ret' = IF r.exc = "none" THEN Returned("list") ELSE Raised("merge", r.exc)
    /\ pc' = "m96"
    /\ UNCHANGED <<calls, keyword, limit, idea_id, ideas, max_nbr_requests, ideas_dict,
                   ideas_list, final_result, cache, gen_caller, gen_out, gen_slept,
                   genCalls, fetchCalls, retries, cycles, consumed, dup_offered,
                   cache_at_call, id_at_call, id_fetched, new, procs, writes>>

MergeNext == MergeApply

MergeSpec == MergeInit /\ [][MergeNext]_vars

\* ------------------------------------- two concurrent get_ideas calls
\* two callers of get_ideas on one cache directory; each statement of
\* get_ideas is one step, and a write_text is one step
RaceProcs == {1, 2}

\* the locals of a get_ideas call that has not started
RaceLocals ==
    [pc |-> "g193", idea_id |-> None, ideas_dict |-> EmptyRecord, ret |-> NoRet,
     genCalls |-> 0, fetchCalls |-> 0]

\* the call of p ends with an exception
RaceRaise(p, at, exc) ==
    procs' = [procs EXCEPT ![p].pc = "done", ![p].ret = Raised(at, exc)]

\* both calls about to run for one keyword, on an empty cache directory
RaceInit ==
    \E kw \in Keywords :
        /\ pc = "race"
        /\ keyword = kw
        /\ cache = EmptyCache
        /\ procs = [p \in RaceProcs |-> RaceLocals]
        /\ writes = << >>
        /\ original = << >>
        /\ new = << >>
        /\ merged = << >>
        /\ calls = 0
        /\ limit = 0
        /\ ret = NoRet
        /\ cache_at_call = EmptyCache
        /\ id_at_call = None
        /\ idea_id = None
        /\ ideas = << >>
        /\ max_nbr_requests = 0
        /\ ideas_dict = EmptyRecord
        /\ ideas_list = << >>
        /\ final_result = << >>
        /\ gen_caller = ""
        /\ gen_out = [exc |-> "none", val |-> None, caught |-> "none"]
        /\ gen_slept = FALSE
        /\ genCalls = 0
        /\ fetchCalls = 0
        /\ retries = 0
        /\ cycles = 0
        /\ consumed = 0
        /\ dup_offered = FALSE
        /\ id_fetched = FALSE

\* what the steps of the concurrent calls leave alone
RaceFrame ==
    UNCHANGED <<pc, calls, keyword, limit, idea_id, ideas, max_nbr_requests, ideas_dict,
                ideas_list, final_result, ret, gen_caller, gen_out, gen_slept,
                genCalls, fetchCalls, retries, cycles, consumed, dup_offered,
                cache_at_call, id_at_call, id_fetched, original, new, merged>>

\* a get_ideas that takes a lock on the cache directory
RaceLoadLocked(p) ==
    /\ procs[p].pc = "g193"
    /\ \A q \in RaceProcs \ {p} : procs[q].pc \in {"g193", "done"}
    /\ LET r == load_cached(cache, keyword) IN
          IF r.exc # "none"
          THEN RaceRaise(p, "load", r.exc)
          ELSE procs' = [procs EXCEPT ![p].idea_id = r.val,
                                      ![p].pc = IF Falsy(r.val) THEN "g194" ELSE "g201"]
    /\ UNCHANGED <<cache, writes>>
    /\ RaceFrame

\* line 193 and the test of line 194
RaceLoad(p) ==
    /\ procs[p].pc = "g193"
    /\ LET r == load_cached(cache, keyword) IN
          IF r.exc # "none"
          THEN RaceRaise(p, "load", r.exc)
          ELSE procs' = [procs EXCEPT ![p].idea_id = r.val,
                                      ![p].pc = IF Falsy(r.val) THEN "g194" ELSE "g201"]
    /\ UNCHANGED <<cache, writes>>
    /\ RaceFrame

\* lines 195-196: the whole _call_id_generator call
RaceGen(p) ==
    /\ procs[p].pc = "g194"
    /\ \E ev \in GenEvents :
          LET out == GenExcept(GenBody(ev)) IN
          IF out.exc # "none"
          THEN /\ RaceRaise(p, "gen", out.exc)
          ELSE procs' = [procs EXCEPT ![p].idea_id = out.val,
                                      ![p].genCalls = @ + 1,
                                      ![p].pc = "g197"]
    /\ UNCHANGED <<cache, writes>>
    /\ RaceFrame

\* lines 197-199
RaceSaveId(p) ==
    /\ procs[p].pc = "g197"
    /\ IF Falsy(procs[p].idea_id)
       THEN /\ procs' = [procs EXCEPT ![p].pc = "done", ![p].ret = Returned("None")]
            /\ UNCHANGED <<cache, writes>>
       ELSE LET s == save_cache(cache, keyword, IdOnly(procs[p].idea_id)) IN
            IF s.exc # "none"
            THEN /\ RaceRaise(p, "save", s.exc)
                 /\ UNCHANGED <<cache, writes>>
            ELSE /\ cache' = s.cache
                 /\ writes' = Append(writes, <<p, IdOnly(procs[p].idea_id)>>)
                 /\ procs' = [procs EXCEPT ![p].pc = "g201"]
    /\ RaceFrame

\* line 201
RaceFetch(p) ==
    /\ procs[p].pc = "g201"
    /\ \/ \E exc \in {"HTTPError", "RequestException"} :
             procs' = [procs EXCEPT ![p].pc = "done", ![p].ret = Raised("fetch", exc),
                                    ![p].fetchCalls = @ + 1]
       \/ procs' = [procs EXCEPT ![p].ideas_dict = EmptyRecord, ![p].pc = "g202",
                                 ![p].fetchCalls = @ + 1]
       \/ \E r \in UpstreamRecords(procs[p].idea_id) :
             procs' = [procs EXCEPT ![p].ideas_dict = r, ![p].pc = "g202",
                                    ![p].fetchCalls = @ + 1]
    /\ UNCHANGED <<cache, writes>>
    /\ RaceFrame

\* lines 202-203
RaceSaveRecord(p) ==
    /\ procs[p].pc = "g202"
    /\ LET s == save_cache(cache, keyword, procs[p].ideas_dict) IN
          IF s.exc # "none"
          THEN /\ RaceRaise(p, "save", s.exc)
               /\ UNCHANGED <<cache, writes>>
          ELSE /\ cache' = s.cache
               /\ writes' = Append(writes, <<p, procs[p].ideas_dict>>)
               /\ procs' = [procs EXCEPT ![p].pc = "done", ![p].ret = Returned("dict")]
    /\ RaceFrame

\* the next statement of the call of p
RaceStep(p) ==
    \/ RaceLoad(p)
    \/ RaceGen(p)
    \/ RaceSaveId(p)
    \/ RaceFetch(p)
    \/ RaceSaveRecord(p)

RaceNext == \E p \in RaceProcs : RaceStep(p)

RaceSpec == RaceInit /\ [][RaceNext]_vars

\* ------------------------------------------------- save_cache on its own
\* a list in place of the record
NonMapping == [type |-> "list", fields |-> {}, id |-> None, ideas |-> NoIdeas]

\* the data save_cache may be handed
SaveInputs == UpstreamRecords("x1") \cup {EmptyRecord, NonMapping}

\* the cache directories it may find
SaveCaches ==
    { EmptyCache, PriorCache,
      save_cache(PriorCache, <<"a">>, MkRecord({"id", "niche"}, "x2", NoIdeas)).cache }

\* save_cache about to run on one keyword and one value
SaveInit ==
    \E c \in SaveCaches, kw \in Keywords \cup {<< >>}, d \in SaveInputs :
        /\ pc = "s84"
        /\ calls = 0
        /\ keyword = kw
        /\ limit = 0
        /\ cache = c
        /\ ret = NoRet
        /\ cache_at_call = c
        /\ id_at_call = None
        /\ idea_id = None
        /\ ideas = << >>
        /\ max_nbr_requests = 0
        /\ ideas_dict = d
        /\ ideas_list = << >>
        /\ final_result = << >>
        /\ gen_caller = ""
        /\ gen_out = [exc |-> "none", val |-> None, caught |-> "none"]
        /\ gen_slept = FALSE
        /\ genCalls = 0
        /\ fetchCalls = 0
        /\ retries = 0
        /\ cycles = 0
        /\ consumed = 0
        /\ dup_offered = FALSE
        /\ id_fetched = FALSE
        /\ OtherIdle

\* lines 84-94
SaveApply ==
    /\ pc = "s84"
    /\ LET s == save_cache(cache, keyword, ideas_dict) IN
          /\ cache' = s.cache
          /\ ret' = IF s.exc = "none" THEN Returned("None") ELSE Raised("save", s.exc)
    /\ pc' = "s94"
    /\ UNCHANGED <<calls, keyword, limit, idea_id, ideas, max_nbr_requests, ideas_dict,
                   ideas_list, final_result, gen_caller, gen_out, gen_slept, genCalls,
                   fetchCalls, retries, cycles, consumed, dup_offered, cache_at_call,
                   id_at_call, id_fetched, otherVars>>

SaveNext == SaveApply

SaveSpec == SaveInit /\ [][SaveNext]_vars

\* C11: a save of a value that is not a mapping, or of a mapping without an
\* "id" field, fails with ValueError (the code's InvalidEntry), and the cache
\* directory is left as it was: no file created, none modified.
C11_SaveValidation ==
    (pc = "s94" /\ (ideas_dict.type # "dict" \/ "id" \notin ideas_dict.fields))
        => /\ ret = Raised("save", "ValueError")
           /\ cache = cache_at_call

\* a mapping without "id" was refused while the directory held files
C11_Witness ==
    /\ pc = "s94"
    /\ keyword = <<"a">>
    /\ ideas_dict = MkRecord({"ideas"}, None, StrIdeas("dict", E2))
    /\ ret = Raised("save", "ValueError")
    /\ cache = PriorCache

\* a list was refused
C11_WitnessNonMapping ==
    /\ pc = "s94"
    /\ keyword # << >>
    /\ ideas_dict = NonMapping
    /\ ret = Raised("save", "ValueError")

\* the file save_cache gives the keyword's identifier-only entry
IdPath(kw) == cache_file(_createcache_file_names(kw).kw_id)

\* the file save_cache gives the keyword's full record
RecordPath(kw) == cache_file(_createcache_file_names(kw).ideas)

\* C12: once the fetch of get_ideas has succeeded, the call returns the
\* fetched record and the full-record entry holds it, whatever mapping it is
\* (the empty record and a record without "id" included): no ValueError.
C12_FullRecordAcceptsAny ==
    (pc = "idle" /\ calls >= 1 /\ fetchCalls = 1 /\ ret.at # "fetch")
        => /\ ret = Returned("dict")
           /\ RecordPath(keyword) \in DOMAIN cache
           /\ cache[RecordPath(keyword)] = [kind |-> "record", v |-> ideas_dict]

\* C15: from the generation of the identifier until the fetch, the keyword's
\* cache entry is {id}; after a successful fetch that same entry holds the
\* full record.
C15_EntryLifecycle ==
    /\ (pc \in {"g201", "g202"} /\ genCalls = 1)
          => /\ IdPath(keyword) \in DOMAIN cache
             /\ cache[IdPath(keyword)] = [kind |-> "record", v |-> IdOnly(idea_id)]
    /\ (pc = "idle" /\ ret = Returned("dict") /\ genCalls = 1)
          => cache[IdPath(keyword)] = [kind |-> "record", v |-> ideas_dict]

\* C15 as the code has it: once the identifier is generated and saved, the
\* keyword's identifier-only entry holds {id} with that identifier, through
\* the fetch and after it, whatever the fetch returned; a fetched record
\* with "id" and at least one more field is written to the keyword's
\* full-record entry, which is another file.
C15_SeparateEntries ==
    /\ ((pc \in {"g201", "g202"} \/ (pc = "idle" /\ fetchCalls = 1)) /\ genCalls = 1)
          => /\ IdPath(keyword) \in DOMAIN cache
             /\ cache[IdPath(keyword)] = [kind |-> "record", v |-> IdOnly(idea_id)]
    /\ (pc = "idle" /\ ret = Returned("dict") /\ Cardinality(ideas_dict.fields) > 1)
          => /\ RecordPath(keyword) # IdPath(keyword)
             /\ RecordPath(keyword) \in DOMAIN cache
             /\ cache[RecordPath(keyword)] = [kind |-> "record", v |-> ideas_dict]

\* a full record was fetched and saved, and the identifier-only entry is
\* still {id}
C15_Witness ==
    /\ pc = "idle"
    /\ ret = Returned("dict")
    /\ genCalls = 1
    /\ ideas_dict = MkRecord({"id", "niche", "ideas"}, idea_id, StrIdeas("dict", E4))
    /\ IdPath(keyword) \in DOMAIN cache
    /\ RecordPath(keyword) \in DOMAIN cache
    /\ cache[IdPath(keyword)].v = IdOnly(idea_id)
    /\ cache[RecordPath(keyword)].v = ideas_dict

\* the value a dict holds for a key it has
ValueOf(d, key) == d[CHOOSE i \in 1..Len(d) : d[i][1] = key][2]

OutPath == cache_file(results_file_name(keyword, limit))

\* C14: when deep_extract_ideas returns, the output file named from keyword
\* and limit holds exactly the returned list, whose elements are the members
\* of the final set ideas, each once; whatever the file held before the call
\* is gone, every other file is as it was, and the set ideas was empty until
\* the first fetch of the call.
C14_OutputPersistence ==
    /\ ret.kind = "list" =>
          /\ OutPath \in DOMAIN cache
          /\ cache[OutPath] = [kind |-> "list", v |-> final_result]
          /\ Len(final_result) = Len(ideas)
          /\ Range(final_result) = { DictFromItems(u, << >>) : u \in Range(ideas) }
          /\ \A p \in DOMAIN cache \ {OutPath} :
                p \in DOMAIN cache_at_call /\ cache[p] = cache_at_call[p]
    /\ (Started /\ fetchCalls = 0) => ideas = << >>

\* the output file of an earlier run for the same keyword and limit held
\* another unit, and now holds the returned list alone
C14_Witness ==
    /\ ret.kind = "list"
    /\ keyword = <<"a">>
    /\ limit = 1
    /\ OutPath \in DOMAIN cache_at_call
    /\ cache_at_call[OutPath].v = << Unit("t2", "d2") >>
    /\ final_result = << Unit("t1", "d1") >>
    /\ cache[OutPath].v = final_result

\* C16: a loop iteration that starts with no identifier (line 215) issues
\* one generator call (counted up to MaxRetries retries), and from its loop
\* test back to the next loop test issues no fetch call and leaves
\* max_nbr_requests and the set ideas as they were; max_nbr_requests changes
\* only at line 232, by one, at the end of a cycle whose fetch, extraction
\* and insertion went through.
C16_RetryFrame ==
    /\ [][pc = "a216"
            => /\ pc' = "gen_try" /\ gen_caller' = "a214"
               /\ retries < MaxRetries => genCalls' = genCalls + 1
               /\ Falsy(idea_id)
               /\ UNCHANGED <<max_nbr_requests, ideas, fetchCalls>>]_vars
    /\ [][(pc \in {"gen_try", "gen_finally"} /\ gen_caller = "a214")
            => /\ pc' \in {"gen_finally", "a214"}
               /\ UNCHANGED <<max_nbr_requests, ideas, fetchCalls, genCalls>>]_vars
    /\ [][(pc = "a214" /\ Len(ideas) < limit /\ max_nbr_requests > 0 /\ Falsy(idea_id))
            => /\ pc' = "a216"
               /\ UNCHANGED <<max_nbr_requests, ideas, fetchCalls, genCalls>>]_vars
    /\ [][(Started /\ max_nbr_requests' # max_nbr_requests)
            => /\ pc = "a232"
               /\ max_nbr_requests' = max_nbr_requests - 1
               /\ fetchCalls = cycles + 1
               /\ ret = NoRet]_vars

\* two iterations without an identifier have passed: three generator calls,
\* no fetch, the budget and the set untouched
C16_Witness ==
    /\ pc = "a214"
    /\ retries = 2
    /\ genCalls = 3
    /\ fetchCalls = 0
    /\ max_nbr_requests = MAX_NBR_REQUESTS
    /\ ideas = << >>
    /\ limit > 0

\* C17: a cycle runs fetch (221), extraction (224), insertion (225-228), the
\* generator call for the next cycle (229), the delay (231) and the decrement
\* (232) in that order, and only then the loop test (214); so the generator
\* call is issued even by the cycle that reaches the limit or spends the last
\* request, and a call that returns has issued 1 + cycles + retries
\* generator calls (retries counted up to MaxRetries) and one fetch per cycle.
C17_PipelinedOrder ==
    /\ [][pc = "a221" => pc' \in {"a224", "idle"}]_vars
    /\ [][pc = "a224" => pc' \in {"a225", "idle"}]_vars
    /\ [][pc = "a225" => pc' = "a229"]_vars
    /\ [][pc = "a229" => /\ pc' = "gen_try" /\ gen_caller' = "a231"
                         /\ genCalls' = genCalls + 1
                         /\ UNCHANGED <<max_nbr_requests, cycles, ideas>>]_vars
    /\ [][(pc \in {"gen_try", "gen_finally"} /\ gen_caller = "a231")
            => pc' \in {"gen_finally", "a231"}]_vars
    /\ [][pc = "a231" => (pc' = "a232" /\ gen_slept)]_vars
    /\ [][pc = "a232" => /\ pc' = "a214"
                         /\ max_nbr_requests' = max_nbr_requests - 1
                         /\ cycles' = cycles + 1
                         /\ fetchCalls = cycles + 1
                         /\ retries < MaxRetries => genCalls = 2 + cycles + retries]_vars
    /\ []((ret.kind = "list" /\ retries < MaxRetries)
            => (genCalls = 1 + cycles + retries /\ fetchCalls = cycles))

\* the call returned after one retry and one cycle that reached the limit:
\* the cycle still issued the third generator call
C17_Witness ==
    /\ ret.kind = "list"
    /\ limit = 1
    /\ Len(ideas) = 1
    /\ cycles = 1
    /\ retries = 1
    /\ fetchCalls = 1
    /\ genCalls = 3

\* C19: every fetch of deep_extract_ideas is handed the identifier that the
\* most recent generator call returned, that call returned an identifier
\* (no exception caught), and the identifier has not been handed to a fetch
\* before: a generator call lies between any two fetches.  The identifier
\* the last cycle asked for is still unfetched when the call returns.
C19_FetchUsesFreshId ==
    /\ [](pc = "a221"
            => /\ ~ id_fetched
               /\ ~ Falsy(idea_id)
               /\ idea_id = gen_out.val
               /\ gen_out.caught = "none"
               /\ gen_slept)
    /\ [][(Started /\ fetchCalls' # fetchCalls)
            => /\ pc = "a221"
               /\ fetchCalls' = fetchCalls + 1
               /\ id_fetched'
               /\ idea_id' = idea_id]_vars
    /\ []((ret.kind = "list" /\ cycles >= 1)
            => /\ gen_caller = "a231"
               /\ idea_id = gen_out.val
               /\ ~ id_fetched)

\* the second fetch of a call is about to use an identifier generated after
\* the first fetch
C19_Witness ==
    /\ pc = "a221"
    /\ cycles = 1
    /\ fetchCalls = 1
    /\ genCalls = 2
    /\ gen_caller = "a231"
    /\ ~ id_fetched
    /\ idea_id = "x2"

\* C20: when get_ideas finds no cached identifier and its generator call
\* returns none, get_ideas returns None at once: one generator call, no
\* fetch call, and the cache directory as it was when the call began; the
\* fetch is never reached without an identifier.
C20_FailedGenerationReturnsNone ==
    /\ [][(pc = "g197" /\ Falsy(idea_id))
            => /\ pc' = "idle"
               /\ ret' = Returned("None")
               /\ UNCHANGED <<cache, genCalls, fetchCalls>>]_vars
    /\ [](ret = Returned("None")
            => /\ pc = "idle"
               /\ Falsy(idea_id)
               /\ genCalls = 1
               /\ fetchCalls = 0
               /\ cache = cache_at_call)
    /\ [](pc \in {"g201", "g202"} => ~ Falsy(idea_id))

\* a second call, with files of the first in the directory, got an HTTP
\* error from the generator and returned None
C20_Witness ==
    /\ ret = Returned("None")
    /\ calls = 2
    /\ gen_out.caught = "HTTPError"
    /\ genCalls = 1
    /\ fetchCalls = 0
    /\ cache # EmptyCache
    /\ cache = cache_at_call

\* the positions in writes of the saves of {id} / of larger records
IdWrites == { i \in 1..Len(writes) : Cardinality(writes[i][2].fields) = 1 }
FullWrites == { i \in 1..Len(writes) : Cardinality(writes[i][2].fields) > 1 }

\* the greatest member of a non-empty set of positions
Last(S) == CHOOSE i \in S : \A j \in S : j <= i

\* C18: of two get_ideas calls running concurrently for one keyword on an
\* empty cache directory, each issues its own generator call, each can
\* always take its next step whatever the other is doing, and each of the
\* two entries (identifier-only, full record) holds what the last save to
\* it wrote, whichever call that was.
C18_SameKeywordRace ==
    /\ \A p \in RaceProcs :
          /\ procs[p].pc \in {"g197", "g201", "g202"} => procs[p].genCalls = 1
          /\ procs[p].ret.kind \in {"None", "dict"} => procs[p].genCalls = 1
          /\ procs[p].pc # "done" => ENABLED RaceStep(p)
    /\ IF IdWrites = {}
       THEN IdPath(keyword) \notin DOMAIN cache
       ELSE cache[IdPath(keyword)] = [kind |-> "record", v |-> writes[Last(IdWrites)][2]]
    /\ IF FullWrites = {}
       THEN RecordPath(keyword) \notin DOMAIN cache
       ELSE cache[RecordPath(keyword)] = [kind |-> "record", v |-> writes[Last(FullWrites)][2]]

\* both calls returned a record; the identifier-only entry is the one call
\* 2 wrote, the full record the one call 1 wrote, with another identifier
C18_Witness ==
    /\ \A p \in RaceProcs : procs[p].pc = "done" /\ procs[p].ret = Returned("dict")
    /\ procs[1].idea_id = "x1"
    /\ procs[2].idea_id = "x2"
    /\ IdWrites # {}
    /\ FullWrites # {}
    /\ IdPath(keyword) \in DOMAIN cache
    /\ RecordPath(keyword) \in DOMAIN cache
    /\ cache[IdPath(keyword)].v.id = "x2"
    /\ cache[RecordPath(keyword)].v.id = "x1"
    /\ writes[Last(FullWrites)][1] = 1
    /\ writes[Last(IdWrites)][1] = 2

====
